---- MODULE Spec2Model ----
(***************************************************************************)
(* Model of the Telegram signal forwarding bot.                            *)
(*                                                                         *)
(*   utils/llm_processor.py  sort_price_range, format_final_response and   *)
(*                           process_with_llm, as operators over texts.    *)
(*   handlers/forwarder.py   message_handler, one coroutine per inbound    *)
(*                           event, run on the client's single event loop. *)
(*                                                                         *)
(* A text (a Python str) is a sequence of one-character strings, so that   *)
(* startswith, split, strip, the regular expression and the float          *)
(* round trip are computed as the code computes them.                      *)
(***************************************************************************)
EXTENDS Integers, Sequences, FiniteSets, TLC

VARIABLES
    pc,         \* per event: where its message_handler coroutine stands
    text,       \* per event: message.raw_text
    result,     \* per event: the tuple process_with_llm returned, or NoResult
    attempts,   \* per event: the outbound calls made, in order
    normCalls,  \* per event: how many times process_with_llm was entered
    raised,     \* per event: the calls that raised, in order
    running,    \* the events whose handler holds the loop's thread (none or one)
    fnPc,       \* pure-function harness: "off", "ready" or "done"
    fnInput,    \* pure-function harness: the argument
    fnOutput    \* pure-function harness: the value returned

vars == <<pc, text, result, attempts, normCalls, raised, running,
          fnPc, fnInput, fnOutput>>

relayVars == <<pc, text, result, attempts, normCalls, raised, running>>

fnVars == <<fnPc, fnInput, fnOutput>>

----------------------------------------------------------------------------
(* Python str primitives                                                   *)

\* str.strip() with no argument removes these (of the characters modelled).
Whitespace == {" ", "\n", "\t"}

Digits == <<"0", "1", "2", "3", "4", "5", "6", "7", "8", "9">>

DigitChars == {Digits[i] : i \in 1..Len(Digits)}

\* the character class of the pattern r'[\d.]+'
NumberChars == DigitChars \cup {"."}

DigitVal(c) == (CHOOSE i \in 1..Len(Digits) : Digits[i] = c) - 1

SetMin(S) == CHOOSE x \in S : \A y \in S : x <= y

SetMax(S) == CHOOSE x \in S : \A y \in S : x >= y

\* s[i:] with a 0-based i, as Python slices (an i past the end gives '')
SliceFrom(s, i) == SubSeq(s, i + 1, Len(s))

\* s.startswith(p)
StartsWith(s, p) == Len(s) >= Len(p) /\ SubSeq(s, 1, Len(p)) = p

\* p in s
Contains(s, p) ==
    \E i \in 1..(Len(s) - Len(p) + 1) : SubSeq(s, i, i + Len(p) - 1) = p

\* s.strip()
Strip(s) ==
    LET keep == {i \in 1..Len(s) : s[i] \notin Whitespace}
    IN  IF keep = {} THEN <<>> ELSE SubSeq(s, SetMin(keep), SetMax(keep))

\* s.lower(), on the upper-case letters a response marker can hold
LowerChar(c) ==
    CASE c = "T" -> "t" [] c = "R" -> "r" [] c = "U" -> "u" [] c = "E" -> "e"
      [] c = "V" -> "v" [] c = "A" -> "a" [] c = "L" -> "l" [] c = "I" -> "i"
      [] c = "D" -> "d" [] c = "F" -> "f" [] c = "S" -> "s" [] c = "O" -> "o"
      [] c = "N" -> "n" [] c = "M" -> "m"
      [] OTHER -> c

Lower(s) == [i \in 1..Len(s) |-> LowerChar(s[i])]

RECURSIVE Split(_, _)
\* s.split(c) for a one-character separator c
Split(s, c) ==
    LET at == {i \in 1..Len(s) : s[i] = c}
    IN  IF at = {} THEN <<s>>
        ELSE <<SubSeq(s, 1, SetMin(at) - 1)>> \o Split(SliceFrom(s, SetMin(at)), c)

\* s.split(c, 1)[1], for an s that holds c
AfterFirst(s, c) == SliceFrom(s, SetMin({i \in 1..Len(s) : s[i] = c}))

RECURSIVE Join(_, _)
\* c.join(parts)
Join(parts, c) ==
    IF parts = <<>> THEN <<>>
    ELSE IF Len(parts) = 1 THEN parts[1]
    ELSE parts[1] \o <<c>> \o Join(Tail(parts), c)

RECURSIVE FindNumbers(_)
\* re.findall(r'[\d.]+', s): the maximal runs of digits and dots, in order
FindNumbers(s) ==
    LET starts == {i \in 1..Len(s) : s[i] \in NumberChars}
    IN  IF starts = {} THEN <<>>
        ELSE LET b == SetMin(starts)
                 stops == {i \in b..Len(s) : s[i] \notin NumberChars}
                 e == IF stops = {} THEN Len(s) ELSE SetMin(stops) - 1
             IN  <<SubSeq(s, b, e)>> \o FindNumbers(SliceFrom(s, e))

----------------------------------------------------------------------------
(* float(token) and the str() of a float                                   *)

\* float(tok) raises ValueError unless tok has a digit and at most one dot
FloatParses(tok) ==
    /\ \E i \in 1..Len(tok) : tok[i] \in DigitChars
    /\ Cardinality({i \in 1..Len(tok) : tok[i] = "."}) <= 1

RECURSIVE DropLeadingZeros(_)
DropLeadingZeros(ds) ==
    IF ds # <<>> /\ ds[1] = "0" THEN DropLeadingZeros(Tail(ds)) ELSE ds

RECURSIVE DropTrailingZeros(_)
DropTrailingZeros(ds) ==
    IF ds # <<>> /\ ds[Len(ds)] = "0"
    THEN DropTrailingZeros(SubSeq(ds, 1, Len(ds) - 1)) ELSE ds

\* The value of float(tok) for a token that parses: its integer digits
\* without leading zeros and its fraction digits without trailing zeros.
\* Two tokens denote the same float exactly when these agree (for the
\* short decimals modelled, every one of which a double tells apart).
Float(tok) ==
    LET dots == {i \in 1..Len(tok) : tok[i] = "."}
        d == IF dots = {} THEN Len(tok) + 1 ELSE SetMin(dots)
    IN  [ip |-> DropLeadingZeros(SubSeq(tok, 1, d - 1)),
         fp |-> DropTrailingZeros(SubSeq(tok, d + 1, Len(tok)))]

RECURSIVE DigitsVal(_)
DigitsVal(ds) ==
    IF ds = <<>> THEN 0 ELSE 10 * DigitsVal(SubSeq(ds, 1, Len(ds) - 1)) + DigitVal(ds[Len(ds)])

PadRight(ds, n) == ds \o [i \in 1..(n - Len(ds)) |-> "0"]

\* x < y on floats
FloatLess(x, y) ==
    LET n == IF Len(x.fp) > Len(y.fp) THEN Len(x.fp) ELSE Len(y.fp)
    IN  \/ DigitsVal(x.ip) < DigitsVal(y.ip)
        \/ /\ DigitsVal(x.ip) = DigitsVal(y.ip)
           /\ DigitsVal(PadRight(x.fp, n)) < DigitsVal(PadRight(y.fp, n))

\* min(x, y) and max(x, y): Python returns the first argument on a tie
FloatMin(x, y) == IF FloatLess(y, x) THEN y ELSE x

FloatMax(x, y) == IF FloatLess(x, y) THEN y ELSE x

\* f"{x}" for a float x: the shortest decimal that reads back as x, always
\* with a fraction part (2930.0, 0.5).  Exponent notation starts below 1e-4
\* and at 1e16, outside the tokens modelled.
FloatStr(x) ==
    (IF x.ip = <<>> THEN <<"0">> ELSE x.ip) \o <<".">> \o
    (IF x.fp = <<>> THEN <<"0">> ELSE x.fp)

----------------------------------------------------------------------------
(* utils/llm_processor.py                                                  *)

EntryTag == <<"E", "n", "t", "r", "y", ":">>

RangeMark == <<" ", "-", " ">>

ColonSpace == <<":", " ">>

ValidTag == <<"V", "A", "L", "I", "D", ":">>

ReasonTag == <<"R", "E", "A", "S", "O", "N", ":">>

FormatTag == <<"F", "O", "R", "M", "A", "T", ":">>

TrueWord == <<"t", "r", "u", "e">>

NoneWord == <<"N", "o", "n", "e">>

EmptyResponseReason ==
    <<"E", "m", "p", "t", "y", " ", "r", "e", "s", "p", "o", "n", "s", "e",
      " ", "f", "r", "o", "m", " ", "L", "L", "M">>

FailedToFormatReason ==
    <<"F", "a", "i", "l", "e", "d", " ", "t", "o", " ", "f", "o", "r", "m",
      "a", "t", " ", "m", "e", "s", "s", "a", "g", "e">>

ErrorPrefix ==
    <<"E", "r", "r", "o", "r", " ", "p", "r", "o", "c", "e", "s", "s", "i",
      "n", "g", " ", "m", "e", "s", "s", "a", "g", "e", ":", " ">>

\* str(ValueError) of list.index('FORMAT:') on a list without that element
FormatNotInList ==
    <<"'", "F", "O", "R", "M", "A", "T", ":", "'", " ", "i", "s", " ", "n",
      "o", "t", " ", "i", "n", " ", "l", "i", "s", "t">>

\* Optional[str]
None == [tag |-> "None"]

Some(s) == [tag |-> "Some", val |-> s]

\* the truth value Python gives an Optional[str]: neither None nor ''
Truthy(o) == o.tag = "Some" /\ o.val # <<>>

\* sort_price_range: exactly two number tokens, both read by float(), are
\* written back lower first; anything else (the bare except included)
\* returns the argument.
sort_price_range(price_range_str) ==
    LET numbers == FindNumbers(price_range_str)
    IN  IF Len(numbers) = 2 /\ FloatParses(numbers[1]) /\ FloatParses(numbers[2])
        THEN LET num1 == Float(numbers[1])
                 num2 == Float(numbers[2])
             IN  FloatStr(FloatMin(num1, num2)) \o RangeMark
                   \o FloatStr(FloatMax(num1, num2))
        ELSE price_range_str

\* the test of the loop in format_final_response
IsEntryRange(line) == StartsWith(line, EntryTag) /\ Contains(line, RangeMark)

\* prefix = line.split(':')[0] + ': '
EntryPrefix(line) == Split(line, ":")[1] \o ColonSpace

\* price_range = line[len(prefix):].strip()
PriceRange(line) == Strip(SliceFrom(line, Len(EntryPrefix(line))))

\* the body of the loop in format_final_response, for one line
FormatLine(line) ==
    IF IsEntryRange(line)
    THEN EntryPrefix(line) \o sort_price_range(PriceRange(line))
    ELSE line

format_final_response(response_text) ==
    LET lines == Split(response_text, "\n")
    IN  Join([i \in 1..Len(lines) |-> FormatLine(lines[i])], "\n")

\* Tuple[bool, Optional[str], Optional[str]]
Result(v, r, f) == [isValid |-> v, reason |-> r, formatted |-> f]

\* next((line for line in sections if line.startswith(tag)), '')
FirstStartingWith(sections, tag) ==
    LET at == {i \in 1..Len(sections) : StartsWith(sections[i], tag)}
    IN  IF at = {} THEN <<>> ELSE sections[SetMin(at)]

\* Mutant of FormatMissing: the test for an empty section is left out.
FormatMissing_OnlyNone(format_section) == format_section = NoneWord

\* not format_section or format_section == 'None'
FormatMissing(format_section) ==
    format_section = <<>> \/ format_section = NoneWord

\* process_with_llm from the parse on: response.text is a non-empty text
ParseResponse(response_text) ==
    LET sections == Split(Strip(response_text), "\n")
        valid_line == FirstStartingWith(sections, ValidTag)
        is_valid == Contains(Lower(valid_line), TrueWord)
        reason_line == FirstStartingWith(sections, ReasonTag)
        reason == IF reason_line # <<>>
                  THEN Some(Strip(AfterFirst(reason_line, ":")))
                  ELSE None
        at == {i \in 1..Len(sections) : sections[i] = FormatTag}
    IN  IF ~is_valid THEN Result(FALSE, reason, None)
        ELSE IF at = {}
        THEN \* sections.index raises ValueError, caught by the except clause
             Result(FALSE, Some(ErrorPrefix \o FormatNotInList), None)
        ELSE LET format_section ==
                     Strip(Join(SliceFrom(sections, SetMin(at)), "\n"))
             IN  IF FormatMissing(format_section)
                 THEN Result(FALSE, Some(FailedToFormatReason), None)
                 ELSE Result(TRUE, None, Some(format_final_response(format_section)))

\* What model.generate_content(prompt) and response.text can do
Raised(msg) == [kind |-> "raise", msg |-> msg]

Returned(t) == [kind |-> "text", text |-> t]

\* process_with_llm, given the outcome of the external call
process_with_llm(outcome) ==
    IF outcome.kind = "raise"
    THEN Result(FALSE, Some(ErrorPrefix \o outcome.msg), None)
    ELSE IF outcome.text = <<>>
    THEN Result(FALSE, Some(EmptyResponseReason), None)
    ELSE ParseResponse(outcome.text)

----------------------------------------------------------------------------
(* The inputs the external collaborators supply                            *)

NumEvents == 2

Events == 1..NumEvents

\* message.raw_text: '' for a message without text (media only)
MessageTexts == {<<>>, <<"B", "U", "Y", " ", "G", "O", "L", "D">>}

Sp == <<" ">>

AssetLine == <<"A", "s", "s", "e", "t", ":", " ", "G", "O", "L", "D">>

StopLine ==
    <<"S", "t", "o", "p", " ", "L", "o", "s", "s", ":", " ", "2", "9", "2",
      "6", ".", "8", "8">>

ExampleEntryLine ==
    <<"E", "n", "t", "r", "y", ":", " ", "2", "9", "3", "4", ".", "8", "8",
      " ", "-", " ", "2", "9", "3", "0", ".", "8", "8">>

\* Each part of a response is the lines it contributes (none when absent).
ValidParts ==
    {<<>>,
     <<ValidTag \o Sp \o TrueWord>>,
     <<ValidTag \o Sp \o <<"T", "R", "U", "E">>>>,
     <<ValidTag \o Sp \o <<"f", "a", "l", "s", "e">>>>}

ReasonParts ==
    {<<>>,
     <<ReasonTag>>,
     <<ReasonTag \o Sp \o <<"M", "i", "s", "s", "i", "n", "g", " ", "s", "t", "o", "p">>>>}

FormatParts ==
    {<<>>,
     <<FormatTag>>,
     <<FormatTag \o Sp>>,
     <<FormatTag \o Sp \o NoneWord>>,
     <<FormatTag, NoneWord>>,
     <<FormatTag, Sp, <<>>>>,
     <<FormatTag, AssetLine>>,
     <<FormatTag, <<>>, AssetLine, ExampleEntryLine, StopLine, <<>>>>}

\* response.text: the three parts in the order the prompt asks for
Responses ==
    {Join(v \o r \o f, "\n") : v \in ValidParts, r \in ReasonParts, f \in FormatParts}

\* str(e) of what generate_content raises
ErrorTexts == {<<"q", "u", "o", "t", "a">>}

LLMOutcomes == {Raised(m) : m \in ErrorTexts} \cup {Returned(t) : t \in Responses}

\* the tuples process_with_llm can hand to message_handler
Verdicts == {process_with_llm(o) : o \in LLMOutcomes}

----------------------------------------------------------------------------
(* handlers/forwarder.py: message_handler                                  *)

NoResult == [tag |-> "NoResult"]

\* one outbound call: site is the statement that makes it ("send" line 54,
\* "forward" line 67, "fallback" line 73); status is "pending", "ok" (the
\* destination received the payload) or "failed" (the call raised)
Attempt(op, site, payload) ==
    [op |-> op, site |-> site, payload |-> payload, status |-> "pending"]

\* the payload of forward_messages: the event's own message
Original(e) == [event |-> e, raw_text |-> text[e]]

Settle(as, status) == [as EXCEPT ![Len(as)].status = status]

\* Mutant of AfterVerdict: an invalid message takes the forwarding branch.
AfterVerdict_ForwardsInvalid(res) ==
    IF ~res.isValid THEN "forward"
    ELSE IF Truthy(res.formatted) THEN "send"
    ELSE "forward"

\* lines 48-67: what the handler does with the tuple
AfterVerdict(res) ==
    IF ~res.isValid THEN "done"
    ELSE IF Truthy(res.formatted) THEN "send"
    ELSE "forward"

\* Mutant of OnRaise: the fallback is not inside a try of its own, so what
\* it raises leaves the handler.
OnRaise_NoInnerTry(site) ==
    IF site = "fallback" THEN "escaped" ELSE "fallback"

\* lines 33, 69-76: where control goes when the call at a site raises.  The
\* main body is inside the outer try; the fallback is inside its own.
OnRaise(site) ==
    IF site = "fallback" THEN "done" ELSE "fallback"

\* line 41: if not message_text
SkipsEmpty(message_text) == message_text = <<>>

\* Mutant of AfterSend: the handler falls through to the forwarding call.
AfterSend_AlsoForwards == "forward"

\* lines 54-64: after send_message returns the handler logs and returns
AfterSend == "done"

RelayInit ==
    /\ pc = [e \in Events |-> "idle"]
    /\ text = [e \in Events |-> <<>>]
    /\ result = [e \in Events |-> NoResult]
    /\ attempts = [e \in Events |-> <<>>]
    /\ normCalls = [e \in Events |-> 0]
    /\ raised = [e \in Events |-> <<>>]
    /\ running = {}

FnOff ==
    /\ fnPc = "off"
    /\ fnInput = <<>>
    /\ fnOutput = <<>>

Init == RelayInit /\ FnOff

\* The control state reached by entering a site: an outbound site issues
\* its call (and the handler waits on it), "done" returns.
Enter(e, site) ==
    /\ pc' = [pc EXCEPT ![e] = site]
    /\ attempts' =
         IF site = "send"
         THEN [attempts EXCEPT ![e] =
                 Append(@, Attempt("send_message", site, result'[e].formatted.val))]
         ELSE IF site \in {"forward", "fallback"}
         THEN [attempts EXCEPT ![e] =
                 Append(@, Attempt("forward_messages", site, Original(e)))]
         ELSE attempts

\* As Enter, after the pending outbound call of e got its status.
SettleAndEnter(e, status, site) ==
    /\ pc' = [pc EXCEPT ![e] = site]
    /\ attempts' =
         IF site \in {"forward", "fallback"}
         THEN [attempts EXCEPT ![e] =
                 Append(Settle(@, status), Attempt("forward_messages", site, Original(e)))]
         ELSE [attempts EXCEPT ![e] = Settle(@, status)]

\* The loop delivers a NewMessage event: lines 34-38, up to the first await.
Dispatch(e) ==
    /\ pc[e] = "idle"
    /\ running = {}
    /\ \E t \in MessageTexts : text' = [text EXCEPT ![e] = t]
    /\ pc' = [pc EXCEPT ![e] = "get_chat"]
    /\ UNCHANGED <<result, attempts, normCalls, raised, running, fnVars>>

\* event.get_chat() returns: lines 39-46.  An empty text returns; otherwise
\* the handler enters process_with_llm, a plain (blocking) call made on the
\* loop's thread, which the handler keeps until the call is over.
GetChatReturns(e) ==
    /\ pc[e] = "get_chat"
    /\ running = {}
    /\ IF SkipsEmpty(text[e])
       THEN /\ pc' = [pc EXCEPT ![e] = "done"]
            /\ UNCHANGED <<normCalls, running>>
       ELSE /\ pc' = [pc EXCEPT ![e] = "llm"]
            /\ normCalls' = [normCalls EXCEPT ![e] = @ + 1]
            /\ running' = {e}
    /\ UNCHANGED <<text, result, attempts, raised, fnVars>>

\* event.get_chat() raises: lines 69-73
GetChatRaises(e) ==
    /\ pc[e] = "get_chat"
    /\ running = {}
    /\ raised' = [raised EXCEPT ![e] = Append(@, "get_chat")]
    /\ Enter(e, OnRaise("get_chat"))
    /\ UNCHANGED <<text, result, normCalls, running, fnVars>>

\* process_with_llm returns its tuple (it catches every Exception itself):
\* lines 46-67, up to the next await or the return.
LLMCompletes(e) ==
    /\ pc[e] = "llm"
    /\ running = {e}
    /\ \E res \in Verdicts : result' = [result EXCEPT ![e] = res]
    /\ Enter(e, AfterVerdict(result'[e]))
    /\ running' = {}
    /\ UNCHANGED <<text, normCalls, raised, fnVars>>

\* client.send_message returns: lines 60-64
SendReturns(e) ==
    /\ pc[e] = "send"
    /\ running = {}
    /\ SettleAndEnter(e, "ok", AfterSend)
    /\ UNCHANGED <<text, result, normCalls, raised, running, fnVars>>

\* client.send_message raises: lines 69-73
SendRaises(e) ==
    /\ pc[e] = "send"
    /\ running = {}
    /\ raised' = [raised EXCEPT ![e] = Append(@, "send")]
    /\ SettleAndEnter(e, "failed", OnRaise("send"))
    /\ UNCHANGED <<text, result, normCalls, running, fnVars>>

\* client.forward_messages returns, at line 67 or at line 73 (then line 74)
ForwardReturns(e) ==
    /\ pc[e] \in {"forward", "fallback"}
    /\ running = {}
    /\ SettleAndEnter(e, "ok", "done")
    /\ UNCHANGED <<text, result, normCalls, raised, running, fnVars>>

\* client.forward_messages raises, at line 67 (lines 69-73) or at line 73
\* (lines 75-76)
ForwardRaises(e) ==
    /\ pc[e] \in {"forward", "fallback"}
    /\ running = {}
    /\ raised' = [raised EXCEPT ![e] = Append(@, pc[e])]
    /\ SettleAndEnter(e, "failed", OnRaise(pc[e]))
    /\ UNCHANGED <<text, result, normCalls, running, fnVars>>

Next ==
    \E e \in Events :
        \/ Dispatch(e)
        \/ GetChatReturns(e)
        \/ GetChatRaises(e)
        \/ LLMCompletes(e)
        \/ SendReturns(e)
        \/ SendRaises(e)
        \/ ForwardReturns(e)
        \/ ForwardRaises(e)

Spec == Init /\ [][Next]_vars

\* The loop runs every ready callback, and the transport answers every
\* request; nothing bounds the time generate_content takes (no timeout).
AwaitCompletes(e) ==
    \/ GetChatReturns(e) \/ GetChatRaises(e)
    \/ SendReturns(e) \/ SendRaises(e)
    \/ ForwardReturns(e) \/ ForwardRaises(e)

FairSpec == Spec /\ \A e \in Events : WF_vars(AwaitCompletes(e))

----------------------------------------------------------------------------
(* The pure functions of utils/llm_processor.py, applied to drawn inputs   *)

NumberTokens ==
    {<<"1">>, <<"2">>, <<"1", "0">>, <<"2", ".", "5">>, <<"1", ".", "5", "0">>,
     <<".", "5">>, <<"1", ".", "2", ".", "3">>,
     <<"2", "3", "4", "3">>, <<"1", "2", "3", "4">>,
     <<"2", "9", "3", "4", ".", "8", "8">>, <<"2", "9", "3", "0", ".", "8", "8">>}

LinePrefixes ==
    {EntryTag \o Sp, EntryTag, EntryTag \o Sp \o Sp,
     <<"T", "a", "k", "e", " ", "P", "r", "o", "f", "i", "t", ":", " ">>}

RangeSeparators == {RangeMark, <<"-">>}

LineTails == {<<>>, RangeMark \o <<"3">>, Sp}

RangeLines ==
    {p \o a \o m \o b \o t :
        p \in LinePrefixes, a \in NumberTokens, m \in RangeSeparators,
        b \in NumberTokens \cup {<<>>}, t \in LineTails}

\* a format block: the line alone, followed by another, or after another
FormatBlocks ==
    RangeLines
      \cup {Join(<<l, StopLine>>, "\n") : l \in RangeLines}
      \cup {Join(<<AssetLine, l>>, "\n") : l \in RangeLines}

FormatInit ==
    /\ RelayInit
    /\ fnPc = "ready"
    /\ fnInput \in FormatBlocks
    /\ fnOutput = <<>>

ApplyFormat ==
    /\ fnPc = "ready"
    /\ fnOutput' = format_final_response(fnInput)
    /\ fnPc' = "done"
    /\ UNCHANGED <<fnInput, relayVars>>

FormatSpec == FormatInit /\ [][ApplyFormat]_vars

ParseInit ==
    /\ RelayInit
    /\ fnPc = "ready"
    /\ fnInput \in LLMOutcomes
    /\ fnOutput = <<>>

ApplyProcess ==
    /\ fnPc = "ready"
    /\ fnOutput' = process_with_llm(fnInput)
    /\ fnPc' = "done"
    /\ UNCHANGED <<fnInput, relayVars>>

ParseSpec == ParseInit /\ [][ApplyProcess]_vars

----------------------------------------------------------------------------
(* Properties                                                              *)

HasResult(e) == result[e] # NoResult

Invalid(e) == HasResult(e) /\ ~result[e].isValid

Valid(e) == HasResult(e) /\ result[e].isValid

AttemptsWith(e, status) == {i \in 1..Len(attempts[e]) : attempts[e][i].status = status}

AttemptsAt(e, site) == {i \in 1..Len(attempts[e]) : attempts[e][i].site = site}

\* a call of the main body (lines 33-67) raised
MainRaised(e) == \E i \in 1..Len(raised[e]) : raised[e][i] # "fallback"

FallbackRaised(e) == \E i \in 1..Len(raised[e]) : raised[e][i] = "fallback"

HandlerStates == {"idle", "get_chat", "llm", "send", "forward", "fallback", "done"}

\* C1: an event for which process_with_llm returned isValid = false
\* (whatever the cause) has no send_message and no forward_messages
\* attempt, and its handler has returned.
C1_InvalidIsDropped ==
    \A e \in Events : Invalid(e) => (attempts[e] = <<>> /\ pc[e] = "done")

\* Two events dropped, one because the LLM call raised and one because the
\* response was malformed.
C1_Witness ==
    \E e, f \in Events :
        /\ Invalid(e) /\ pc[e] = "done" /\ attempts[e] = <<>>
        /\ result[e].reason = Some(ErrorPrefix \o <<"q", "u", "o", "t", "a">>)
        /\ Invalid(f) /\ pc[f] = "done" /\ attempts[f] = <<>>
        /\ result[f].reason = Some(FailedToFormatReason)

\* C2: when a call of the main body raises, the handler makes exactly one
\* fallback forward_messages attempt of the original message (and none
\* otherwise); when that attempt raises too the handler has returned with
\* the failed fallback as its last outbound call; and control never leaves
\* the handler by an exception.
C2_FallbackOnceNeverEscapes ==
    \A e \in Events :
        /\ pc[e] \in HandlerStates
        /\ Cardinality(AttemptsAt(e, "fallback")) = (IF MainRaised(e) THEN 1 ELSE 0)
        /\ \A i \in AttemptsAt(e, "fallback") :
               /\ attempts[e][i].op = "forward_messages"
               /\ attempts[e][i].payload = Original(e)
        /\ FallbackRaised(e) =>
               /\ pc[e] = "done"
               /\ attempts[e][Len(attempts[e])].site = "fallback"
               /\ attempts[e][Len(attempts[e])].status = "failed"
               /\ Cardinality({i \in 1..Len(raised[e]) : raised[e][i] = "fallback"}) = 1

\* send_message raised, then the fallback raised, and the handler returned.
C2_Witness ==
    \E e \in Events : raised[e] = <<"send", "fallback">> /\ pc[e] = "done"

\* C3 as stated: an event with an empty text never reaches the Normalizer
\* and never causes an outbound call, whatever else happens.
C3_EmptyNeverForwarded ==
    \A e \in Events :
        (pc[e] # "idle" /\ text[e] = <<>>) => (normCalls[e] = 0 /\ attempts[e] = <<>>)

Lines(t) == Split(t, "\n")

HasMarker(t, tag) == \E i \in 1..Len(Lines(t)) : StartsWith(Lines(t)[i], tag)

HasPositiveValidLine(t) ==
    \E i \in 1..Len(Lines(t)) :
        StartsWith(Lines(t)[i], ValidTag) /\ Contains(Lower(Lines(t)[i]), TrueWord)

\* C4 as stated: a response with a positive VALID: line and no FORMAT: line
\* gives (False, "Failed to format message", None).
C4_NoFormatIsFailedToFormat ==
    (/\ fnPc = "done"
     /\ fnInput.kind = "text"
     /\ HasPositiveValidLine(fnInput.text)
     /\ ~HasMarker(fnInput.text, FormatTag))
    => fnOutput = Result(FALSE, Some(FailedToFormatReason), None)

\* C5 as stated: a (non-empty) response that lacks the VALID:, the REASON:
\* or the FORMAT: line gives isValid = false, a reason and no formatted text.
C5_MissingMarkerIsFailure ==
    (/\ fnPc = "done"
     /\ fnInput.kind = "text"
     /\ \E tag \in {ValidTag, ReasonTag, FormatTag} : ~HasMarker(fnInput.text, tag))
    => (/\ ~fnOutput.isValid
        /\ fnOutput.reason # None
        /\ fnOutput.formatted = None)

\* "Entry: a - b"
EntryRange(a, b) == EntryTag \o Sp \o a \o RangeMark \o b

ParsedTokens == {t \in NumberTokens : FloatParses(t)}

\* C6 as stated: a line "Entry: a - b" becomes "Entry: lo - hi", lo and hi
\* being a and b as they were written, the lower first, and every other
\* line of the block is as it was.
C6_EntryRangeSortedAsWritten ==
    fnPc = "done" =>
        \A k \in 1..Len(Lines(fnInput)) : \A a, b \in ParsedTokens :
            Lines(fnInput)[k] = EntryRange(a, b) =>
                /\ Len(Lines(fnOutput)) = Len(Lines(fnInput))
                /\ Lines(fnOutput)[k] =
                       IF FloatLess(Float(b), Float(a))
                       THEN EntryRange(b, a) ELSE EntryRange(a, b)
                /\ \A j \in 1..Len(Lines(fnInput)) :
                       j # k => Lines(fnOutput)[j] = Lines(fnInput)[j]

\* the range extraction gives exactly two numbers for this line
FindsTwoNumbers(line) ==
    /\ IsEntryRange(line)
    /\ Len(FindNumbers(PriceRange(line))) = 2
    /\ \A i \in 1..2 : FloatParses(FindNumbers(PriceRange(line))[i])

\* C7 as stated: a line for which the range extraction does not give
\* exactly two numbers is emitted character for character.
C7_OtherLinesUnmodified ==
    fnPc = "done" =>
        /\ Len(Lines(fnOutput)) = Len(Lines(fnInput))
        /\ \A k \in 1..Len(Lines(fnInput)) :
               ~FindsTwoNumbers(Lines(fnInput)[k]) =>
                   Lines(fnOutput)[k] = Lines(fnInput)[k]

Waiting == {"get_chat", "send", "forward", "fallback"}

\* C8 as stated: while the handler of one event is inside the LLM call,
\* the handler of any other event that waits on the loop gets on: it
\* returns, or reaches an LLM call of its own, whether or not the first
\* call ever returns.
C8_OthersProgressDuringLLMCall ==
    \A p \in {q \in Events \X Events : q[1] # q[2]} :
        (pc[p[1]] = "llm" /\ pc[p[2]] \in Waiting) ~> (pc[p[2]] \in {"done", "llm"})

\* C9: a valid tuple has no reason and a non-empty formatted text; no
\* handler is ever at the forward_messages call of line 67, and every
\* forward_messages attempt is the fallback's.
C9_ValidHasFormattedText ==
    \A e \in Events :
        /\ Valid(e) => (result[e].reason = None /\ Truthy(result[e].formatted))
        /\ pc[e] # "forward"
        /\ \A i \in 1..Len(attempts[e]) :
               attempts[e][i].op = "forward_messages" => attempts[e][i].site = "fallback"

\* A valid tuple whose formatted text was sent, and whose send raised and
\* was followed by the fallback forward.
C9_Witness ==
    \E e, f \in Events :
        /\ Valid(e) /\ pc[e] = "done" /\ Len(attempts[e]) = 1
        /\ attempts[e][1].status = "ok"
        /\ attempts[e][1].payload = result[e].formatted.val
        /\ Valid(f) /\ Len(attempts[f]) = 2
        /\ attempts[f][2].op = "forward_messages"

\* C10: per event process_with_llm is entered at most once, at most two
\* outbound calls are made and at most one of them succeeds, so the
\* destination receives at most one message for the event.
C10_AtMostOneDelivery ==
    \A e \in Events :
        /\ normCalls[e] <= 1
        /\ Len(attempts[e]) <= 2
        /\ Cardinality(AttemptsWith(e, "ok")) <= 1

\* The Normalizer was called, the formatted text failed to go out, and the
\* fallback delivered the original: two attempts, one delivery.
C10_Witness ==
    \E e \in Events :
        /\ normCalls[e] = 1
        /\ Len(attempts[e]) = 2
        /\ attempts[e][1].op = "send_message" /\ attempts[e][1].status = "failed"
        /\ attempts[e][2].op = "forward_messages" /\ attempts[e][2].status = "ok"

====
